---- MODULE Spec2Model ----
(***************************************************************************)
(* Model of builtin/logical/mongodb/path_config_connection.go: the         *)
(* config/connection endpoint of the MongoDB secret backend.               *)
(*                                                                         *)
(* pathConnectionWrite is modelled statement by statement over a request   *)
(* frame (the handler's locals and its program position).  Spec runs each  *)
(* handler to completion in one action (requests served one at a time);    *)
(* SpecConc interleaves the statements of concurrent write requests with   *)
(* each other and with session consumers.                                  *)
(***************************************************************************)
EXTENDS Integers, Sequences, FiniteSets, TLC

(* Bounds of the model. *)
MaxWrites == 3          \* write requests served in one behaviour of Spec
MaxConcWrites == 2      \* write requests accepted in one behaviour of SpecConc
NumWriters == 2         \* write requests in flight at once in SpecConc

Writers == 1..NumWriters

(***************************************************************************)
(* Request inputs.  A URI string is a sequence of its components           *)
(* <<scheme, host, database>>; the empty string is the empty sequence.     *)
(***************************************************************************)
EmptyURI == <<>>

URIs == { EmptyURI,
          <<"http", "host1">>,
          <<"mongodb">>,
          <<"mongodb", "host1">>,
          <<"mongodb", "host2", "db">> }

(* Outcomes of the collaborators a request meets: the network (dial, ping) *)
(* and the storage backend (Put).                                          *)
Envs == [dialOk : BOOLEAN, pingOk : BOOLEAN, putOk : BOOLEAN]

(***************************************************************************)
(* Go values.                                                              *)
(***************************************************************************)
NilResp == [kind |-> "nil"]
NilErr == "nil"
NoEntry == [present |-> FALSE]
NilSession == [kind |-> "nil"]
NoData == [empty |-> TRUE]

(* A message is its fixed text and the cause embedded in it.  *)
Sprintf(format, arg) == <<format, arg>>
Text(literal) == <<literal, "">>

(* logical.ErrorResponse(text): a response flagged as error carrying text. *)
ErrorResponse(text) ==
    [kind |-> "error", data |-> [error |-> text], warnings |-> <<>>]

ReadWarning == "Read access to this endpoint should be controlled via ACLs as it will return the connection URI as it is, including passwords, if any."

(* type connectionConfig struct *)
connectionConfig(uri, verifyConnection) ==
    [URI |-> uri, VerifyConnection |-> verifyConnection]

(* logical.StorageEntryJSON: the struct encoded as a JSON object, a list   *)
(* of <<json tag, value>> members, under the given key.                    *)
StorageEntryJSON(k, config) ==
    [present |-> TRUE, Key |-> k,
     Value |-> << <<"uri", config.URI>>,
                  <<"verify_connection", config.VerifyConnection>> >>]

JSONHas(value, tag) == \E i \in 1..Len(value) : value[i][1] = tag
JSONGet(value, tag) ==
    value[CHOOSE i \in 1..Len(value) : value[i][1] = tag][2]

(* entry.DecodeJSON(&config): members are matched by json tag; a missing   *)
(* member leaves the field at its zero value.                              *)
DecodeJSON(entry) ==
    [URI |-> IF JSONHas(entry.Value, "uri")
             THEN JSONGet(entry.Value, "uri") ELSE EmptyURI,
     VerifyConnection |-> IF JSONHas(entry.Value, "verify_connection")
                          THEN JSONGet(entry.Value, "verify_connection")
                          ELSE FALSE]

(* structs.New(config).Map(): keyed by the structs tags. *)
StructsMap(config) ==
    [uri |-> config.URI, verify_connection |-> config.VerifyConnection]

(* parseMongoURI: the scheme must be mongodb and a host must be named. *)
parseMongoURI(uri) ==
    IF Len(uri) >= 2 /\ uri[1] = "mongodb"
    THEN [err |-> NilErr,
          dialInfo |-> [Addrs |-> <<uri[2]>>,
                        Database |-> IF Len(uri) >= 3 THEN uri[3] ELSE ""]]
    ELSE [err |-> IF Len(uri) >= 1 /\ uri[1] = "mongodb"
                  THEN "no host in uri" ELSE "unsupported scheme",
          dialInfo |-> [Addrs |-> <<>>, Database |-> ""]]

(***************************************************************************)
(* The owning backend (backend.go).                                        *)
(***************************************************************************)

(* b.ResetSession(): close and drop the cached session. *)
ResetSession(sh) ==
    [sh EXCEPT !.session = NilSession, !.resetCount = @ + 1]

(* b.Session(): reuse the cached session while it answers a ping;          *)
(* otherwise dial anew from the record stored under config/connection.     *)
(* Runs under the backend's lock, as ResetSession does.                    *)
Session(sh, alive, dialOk) ==
    IF sh.session.kind = "session" /\ alive
    THEN sh
    ELSE IF ~sh.storage.present
         THEN [sh EXCEPT !.session = NilSession]
         ELSE LET config == DecodeJSON(sh.storage)
                  parsed == parseMongoURI(config.URI)
              IN IF parsed.err = NilErr /\ dialOk
                 THEN [sh EXCEPT !.session =
                          [kind |-> "session", uri |-> config.URI,
                           version |-> Len(sh.puts)]]
                 ELSE [sh EXCEPT !.session = NilSession]

(***************************************************************************)
(* pathConnectionWrite, one statement at a time.  f is the request frame,  *)
(* sh the state shared with other requests, env the collaborators'         *)
(* outcomes.  Each step yields the next frame and shared state.            *)
(***************************************************************************)
NewFrame(uri, verifyConnection) ==
    [pc |-> "uri", uri |-> uri, verifyConnection |-> verifyConnection,
     parsed |-> FALSE, dials |-> 0, dialled |-> FALSE, pinged |-> FALSE,
     opened |-> 0, closed |-> 0, deferred |-> <<>>,
     entry |-> NoEntry, putVersion |-> 0,
     resp |-> NilResp, err |-> NilErr]

IdleFrame == [NewFrame(EmptyURI, FALSE) EXCEPT !.pc = "idle"]

(* Variant: the session is reset before the entry is stored. *)
NextStatement_ResetFirst(pc) ==
    CASE pc = "encode" -> "reset"
      [] pc = "reset"  -> "put"
      [] pc = "put"    -> "respond"

(* The order of the statements after validation: encode the entry, Put   *)
(* it, reset the session, build the response.                             *)
NextStatement(pc) ==
    CASE pc = "encode" -> "put"
      [] pc = "put"    -> "reset"
      [] pc = "reset"  -> "respond"

(* return resp, err: the deferred calls run next. *)
Return(f, resp, err) == [f EXCEPT !.resp = resp, !.err = err, !.pc = "defer"]

(* Variant: the empty uri is not rejected. *)
Write_GetURI_NoEmptyCheck(f, sh, env) ==
    [f |-> [f EXCEPT !.pc = "parse"], sh |-> sh]

(* uri := data.Get("uri"); if uri == "" { return ErrorResponse(...) } *)
Write_GetURI(f, sh, env) ==
    IF f.uri = EmptyURI
    THEN [f |-> Return(f, ErrorResponse(Text("uri parameter must be supplied")),
                       NilErr),
          sh |-> sh]
    ELSE [f |-> [f EXCEPT !.pc = "parse"], sh |-> sh]

(* Variant: the parse error is ignored. *)
Write_Parse_ErrIgnored(f, sh, env) ==
    [f |-> [f EXCEPT !.parsed = (parseMongoURI(f.uri).err = NilErr),
                     !.pc = "verify"],
     sh |-> sh]

(* dialInfo, err := parseMongoURI(uri); if err != nil { return ... } *)
Write_Parse(f, sh, env) ==
    LET r == parseMongoURI(f.uri)
    IN IF r.err # NilErr
       THEN [f |-> Return(f, ErrorResponse(Sprintf("invalid uri: %s", r.err)),
                          NilErr),
             sh |-> sh]
       ELSE [f |-> [f EXCEPT !.parsed = TRUE, !.pc = "verify"], sh |-> sh]

(* Variant: the condition is negated. *)
Write_IfVerify_Negated(f, sh, env) ==
    [f |-> [f EXCEPT !.pc = IF ~f.verifyConnection THEN "dial" ELSE "encode"],
     sh |-> sh]

(* verifyConnection := data.Get("verify_connection"); if verifyConnection *)
Write_IfVerify(f, sh, env) ==
    [f |-> [f EXCEPT !.pc = IF f.verifyConnection THEN "dial" ELSE "encode"],
     sh |-> sh]

(* Variant: session.Close() is not deferred. *)
Write_Dial_NoDefer(f, sh, env) ==
    IF ~env.dialOk
    THEN [f |-> Return([f EXCEPT !.dials = @ + 1],
                       ErrorResponse(Sprintf("Error validating connection info: %s",
                                             "dial failed")),
                       NilErr),
          sh |-> sh]
    ELSE [f |-> [f EXCEPT !.dials = @ + 1, !.dialled = TRUE, !.opened = @ + 1,
                          !.pc = "ping"],
          sh |-> [sh EXCEPT !.netOpen = @ + 1]]

(* session, err := mgo.DialWithInfo(dialInfo); if err != nil { return ... } *)
(* defer session.Close()                                                    *)
Write_Dial(f, sh, env) ==
    IF ~env.dialOk
    THEN [f |-> Return([f EXCEPT !.dials = @ + 1],
                       ErrorResponse(Sprintf("Error validating connection info: %s",
                                             "dial failed")),
                       NilErr),
          sh |-> sh]
    ELSE [f |-> [f EXCEPT !.dials = @ + 1, !.dialled = TRUE, !.opened = @ + 1,
                          !.deferred = <<"session.Close">> \o @,
                          !.pc = "ping"],
          sh |-> [sh EXCEPT !.netOpen = @ + 1]]

(* Variant: the ping error is ignored. *)
Write_Ping_ErrIgnored(f, sh, env) ==
    [f |-> [f EXCEPT !.pinged = env.pingOk, !.pc = "encode"], sh |-> sh]

(* if err := session.Ping(); err != nil { return ... } *)
Write_Ping(f, sh, env) ==
    IF ~env.pingOk
    THEN [f |-> Return(f,
                       ErrorResponse(Sprintf("Error validating connection info: %s",
                                             "ping failed")),
                       NilErr),
          sh |-> sh]
    ELSE [f |-> [f EXCEPT !.pinged = TRUE, !.pc = "encode"], sh |-> sh]

(* Variant: the field's default is stored in place of the submitted flag. *)
Write_Encode_DefaultVerify(f, sh, env) ==
    [f |-> [f EXCEPT !.entry = StorageEntryJSON("config/connection",
                          connectionConfig(f.uri, TRUE)),
                     !.pc = NextStatement("encode")],
     sh |-> sh]

(* entry, err := logical.StorageEntryJSON("config/connection", ...)        *)
(* Encoding a string and a bool cannot fail, so err is nil here.           *)
Write_Encode(f, sh, env) ==
    [f |-> [f EXCEPT !.entry = StorageEntryJSON("config/connection",
                          connectionConfig(f.uri, f.verifyConnection)),
                     !.pc = NextStatement("encode")],
     sh |-> sh]

(* Variant: the session is reset although Put failed. *)
Write_Put_ResetOnError(f, sh, env) ==
    IF ~env.putOk
    THEN [f |-> Return(f, NilResp, "storage put failed"),
          sh |-> ResetSession(sh)]
    ELSE [f |-> [f EXCEPT !.putVersion = Len(sh.puts) + 1,
                          !.pc = NextStatement("put")],
          sh |-> [sh EXCEPT !.storage = f.entry,
                            !.puts = Append(@, [entry |-> f.entry,
                                                parsed |-> f.parsed,
                                                dialled |-> f.dialled,
                                                pinged |-> f.pinged])]]

(* if err := req.Storage.Put(entry); err != nil { return nil, err } *)
Write_Put(f, sh, env) ==
    IF ~env.putOk
    THEN [f |-> Return(f, NilResp, "storage put failed"), sh |-> sh]
    ELSE [f |-> [f EXCEPT !.putVersion = Len(sh.puts) + 1,
                          !.pc = NextStatement("put")],
          sh |-> [sh EXCEPT !.storage = f.entry,
                            !.puts = Append(@, [entry |-> f.entry,
                                                parsed |-> f.parsed,
                                                dialled |-> f.dialled,
                                                pinged |-> f.pinged])]]

(* Variant: the call of ResetSession is missing. *)
Write_Reset_Skipped(f, sh, env) ==
    [f |-> [f EXCEPT !.pc = NextStatement("reset")], sh |-> sh]

(* b.ResetSession() *)
Write_Reset(f, sh, env) ==
    [f |-> [f EXCEPT !.pc = NextStatement("reset")], sh |-> ResetSession(sh)]

(* resp := &logical.Response{}; resp.AddWarning(...); return resp, nil *)
Write_Respond(f, sh, env) ==
    [f |-> Return(f, [kind |-> "ok", data |-> NoData,
                      warnings |-> <<ReadWarning>>], NilErr),
     sh |-> sh]

(* The deferred calls run as the handler returns: session.Close(). *)
Write_Deferred(f, sh, env) ==
    [f |-> [f EXCEPT !.closed = @ + Len(f.deferred), !.deferred = <<>>,
                     !.pc = "done"],
     sh |-> [sh EXCEPT !.netOpen = @ - Len(f.deferred)]]

WriteStep(f, sh, env) ==
    CASE f.pc = "uri"     -> Write_GetURI(f, sh, env)
      [] f.pc = "parse"   -> Write_Parse(f, sh, env)
      [] f.pc = "verify"  -> Write_IfVerify(f, sh, env)
      [] f.pc = "dial"    -> Write_Dial(f, sh, env)
      [] f.pc = "ping"    -> Write_Ping(f, sh, env)
      [] f.pc = "encode"  -> Write_Encode(f, sh, env)
      [] f.pc = "put"     -> Write_Put(f, sh, env)
      [] f.pc = "reset"   -> Write_Reset(f, sh, env)
      [] f.pc = "respond" -> Write_Respond(f, sh, env)
      [] f.pc = "defer"   -> Write_Deferred(f, sh, env)

(* The handler run from its first statement to its return. *)
RECURSIVE RunWrite(_, _, _)
RunWrite(f, sh, env) ==
    IF f.pc = "done"
    THEN [f |-> f, sh |-> sh]
    ELSE LET r == WriteStep(f, sh, env) IN RunWrite(r.f, r.sh, env)

pathConnectionWrite(uri, verifyConnection, sh, env) ==
    RunWrite(NewFrame(uri, verifyConnection), sh, env)

(***************************************************************************)
(* pathConnectionRead                                                      *)
(***************************************************************************)
(* Variant: a missing entry is decoded as if it were there. *)
pathConnectionRead_NoNilCheck(sh, getOk) ==
    IF ~getOk
    THEN [resp |-> NilResp, err |-> "failed to read connection configuration",
          sh |-> sh]
    ELSE IF ~sh.storage.present
         THEN [resp |-> NilResp, err |-> "decode of a nil entry", sh |-> sh]
         ELSE [resp |-> [kind |-> "ok",
                         data |-> StructsMap(DecodeJSON(sh.storage)),
                         warnings |-> <<>>],
               err |-> NilErr, sh |-> sh]

(* func (b *backend) pathConnectionRead *)
pathConnectionRead(sh, getOk) ==
    IF ~getOk
    THEN [resp |-> NilResp, err |-> "failed to read connection configuration",
          sh |-> sh]
    ELSE IF ~sh.storage.present
         THEN [resp |-> NilResp, err |-> NilErr, sh |-> sh]
         ELSE [resp |-> [kind |-> "ok",
                         data |-> StructsMap(DecodeJSON(sh.storage)),
                         warnings |-> <<>>],
               err |-> NilErr, sh |-> sh]

VARIABLES
    storage,      \* req.Storage: the entry under config/connection
    session,      \* b.session: the backend's cached database session
    resetCount,   \* calls of b.ResetSession so far
    netOpen,      \* verification sessions dialled and not yet closed
    puts,         \* log of the successful Storage.Put calls, oldest first
    frames,       \* SpecConc: the frame of each concurrent write request
    acked,        \* number of the latest Put whose write has returned success
    writes,       \* write requests accepted so far
    okWrites,     \* write requests that returned success so far
    lastOk,       \* the pair submitted by the latest successful write
    last          \* the latest completed request and what it returned

vars == <<storage, session, resetCount, netOpen, puts, frames,
          acked, writes, okWrites, lastOk, last>>

Shared ==
    [storage |-> storage, session |-> session, resetCount |-> resetCount,
     netOpen |-> netOpen, puts |-> puts]

SetShared(sh) ==
    /\ storage' = sh.storage
    /\ session' = sh.session
    /\ resetCount' = sh.resetCount
    /\ netOpen' = sh.netOpen
    /\ puts' = sh.puts

NoEnv == [dialOk |-> FALSE, pingOk |-> FALSE, putOk |-> FALSE]

Max(a, b) == IF a >= b THEN a ELSE b

(* A write succeeded when it returned the response with the warning and a  *)
(* nil error.                                                              *)
Succeeded(f) == f.resp.kind = "ok" /\ f.err = NilErr

(* The state after construction: nothing stored, no cached session. *)
Init ==
    /\ storage = NoEntry
    /\ session = NilSession
    /\ resetCount = 0
    /\ netOpen = 0
    /\ puts = <<>>
    /\ frames = [w \in Writers |-> IdleFrame]
    /\ acked = 0
    /\ writes = 0
    /\ okWrites = 0
    /\ lastOk = [uri |-> EmptyURI, verify_connection |-> FALSE]
    /\ last = [op |-> "none", env |-> NoEnv, getOk |-> FALSE,
               frame |-> IdleFrame,
               resp |-> NilResp, err |-> NilErr, okBefore |-> 0,
               ackedBefore |-> 0, pre |-> Shared]

(* What a returned write leaves in the request history. *)
Returned(f) ==
    /\ okWrites' = IF Succeeded(f) THEN okWrites + 1 ELSE okWrites
    /\ acked' = IF Succeeded(f) THEN Max(acked, f.putVersion) ELSE acked
    /\ lastOk' = IF Succeeded(f)
                 THEN [uri |-> f.uri, verify_connection |-> f.verifyConnection]
                 ELSE lastOk

(***************************************************************************)
(* Requests served one at a time (Spec).                                   *)
(***************************************************************************)

(* logical.UpdateOperation on config/connection *)
Write(uri, verifyConnection, env) ==
    /\ writes < MaxWrites
    /\ LET r == pathConnectionWrite(uri, verifyConnection, Shared, env)
       IN /\ SetShared(r.sh)
          /\ Returned(r.f)
          /\ last' = [op |-> "write", env |-> env, getOk |-> FALSE,
                      frame |-> r.f,
                      resp |-> r.f.resp, err |-> r.f.err,
                      okBefore |-> okWrites, ackedBefore |-> acked,
                      pre |-> Shared]
    /\ writes' = writes + 1
    /\ UNCHANGED frames

(* logical.ReadOperation on config/connection *)
Read(getOk) ==
    /\ LET r == pathConnectionRead(Shared, getOk)
       IN /\ SetShared(r.sh)
          /\ last' = [op |-> "read", env |-> NoEnv, getOk |-> getOk,
                      frame |-> IdleFrame, resp |-> r.resp, err |-> r.err,
                      okBefore |-> okWrites, ackedBefore |-> acked,
                      pre |-> Shared]
    /\ UNCHANGED <<frames, acked, writes, okWrites, lastOk>>

(* b.Session() called by another path of the backend. *)
CallSession(alive, dialOk) ==
    /\ SetShared(Session(Shared, alive, dialOk))
    /\ UNCHANGED <<frames, acked, writes, okWrites, lastOk>>

(* A consumer asks for the database session between two requests. *)
UseSession(alive, dialOk) ==
    /\ CallSession(alive, dialOk)
    /\ last' = [op |-> "session",
                env |-> [NoEnv EXCEPT !.dialOk = dialOk, !.pingOk = alive],
                getOk |-> FALSE, frame |-> IdleFrame,
                resp |-> Session(Shared, alive, dialOk).session,
                err |-> NilErr,
                okBefore |-> okWrites, ackedBefore |-> acked,
                pre |-> Shared]

Next ==
    \/ \E uri \in URIs, verifyConnection \in BOOLEAN, env \in Envs :
          Write(uri, verifyConnection, env)
    \/ \E getOk \in BOOLEAN : Read(getOk)
    \/ \E alive \in BOOLEAN, dialOk \in BOOLEAN : UseSession(alive, dialOk)

Spec == Init /\ [][Next]_vars

(***************************************************************************)
(* Concurrent write requests (SpecConc).  The statements that reach a      *)
(* collaborator (dial, ping, Put, ResetSession, the deferred Close) are    *)
(* steps of their own; the statements between them touch only the frame    *)
(* and run together with the step before them.                             *)
(***************************************************************************)
LocalPcs == {"uri", "parse", "verify", "encode", "respond"}

RECURSIVE RunLocal(_, _, _)
RunLocal(f, sh, env) ==
    IF f.pc \notin LocalPcs
    THEN [f |-> f, sh |-> sh]
    ELSE LET r == WriteStep(f, sh, env) IN RunLocal(r.f, r.sh, env)

(* The outcome of the one collaborator a step calls. *)
Outcome(ok) == [dialOk |-> ok, pingOk |-> ok, putOk |-> ok]

(* A write request arrives and its handler runs to its first call. *)
Begin(w, uri, verifyConnection) ==
    /\ writes < MaxConcWrites
    /\ frames[w].pc = "idle"
    /\ frames' = [frames EXCEPT
                    ![w] = RunLocal(NewFrame(uri, verifyConnection),
                                    Shared, NoEnv).f]
    /\ writes' = writes + 1
    /\ UNCHANGED <<storage, session, resetCount, netOpen, puts, acked,
                   okWrites, lastOk, last>>

(* The handler of request w makes its next call. *)
Step(w, ok) ==
    /\ frames[w].pc \notin {"idle", "done"}
    /\ LET r == WriteStep(frames[w], Shared, Outcome(ok))
           q == RunLocal(r.f, r.sh, NoEnv)
       IN /\ SetShared(q.sh)
          /\ frames' = [frames EXCEPT ![w] = q.f]
    /\ UNCHANGED <<acked, writes, okWrites, lastOk, last>>

(* The caller of request w receives the handler's result. *)
Finish(w) ==
    /\ frames[w].pc = "done"
    /\ acked' = IF Succeeded(frames[w])
                THEN Max(acked, frames[w].putVersion) ELSE acked
    /\ frames' = [frames EXCEPT ![w] = IdleFrame]
    /\ UNCHANGED <<storage, session, resetCount, netOpen, puts, writes,
                   okWrites, lastOk, last>>

(* A consumer asks for the database session at any moment. *)
Consume(alive, dialOk) ==
    /\ CallSession(alive, dialOk)
    /\ UNCHANGED last

NextConc ==
    \/ \E w \in Writers, uri \in URIs, verifyConnection \in BOOLEAN :
          Begin(w, uri, verifyConnection)
    \/ \E w \in Writers, ok \in BOOLEAN : Step(w, ok)
    \/ \E w \in Writers : Finish(w)
    \/ \E alive \in BOOLEAN, dialOk \in BOOLEAN : Consume(alive, dialOk)

SpecConc == Init /\ [][NextConc]_vars

(***************************************************************************)
(* Properties.  In Spec, last is the request served latest, so the current *)
(* state is the state that request left and last.pre the state it met.     *)
(***************************************************************************)
LastWrite == last.op = "write"
LastRead == last.op = "read"
ValidURI(uri) == uri # EmptyURI /\ parseMongoURI(uri).err = NilErr
InvalidURI(uri) == uri # EmptyURI /\ parseMongoURI(uri).err # NilErr

(* What a read whose storage fetch succeeds returns in shared state sh. *)
ReadOf(sh) ==
    [resp |-> pathConnectionRead(sh, TRUE).resp,
     err |-> pathConnectionRead(sh, TRUE).err]

StorageUntouched == storage = last.pre.storage /\ puts = last.pre.puts
SessionUntouched ==
    session = last.pre.session /\ resetCount = last.pre.resetCount

(* C1, as stated: every write of a non-empty, valid URI with               *)
(* verify_connection=false succeeds, and every read after a successful     *)
(* write returns exactly the pair of the most recent successful write.     *)
C1_AsStated ==
    /\ (LastWrite /\ ValidURI(last.frame.uri) /\ ~last.frame.verifyConnection)
          => Succeeded(last.frame)
    /\ (LastRead /\ last.okBefore > 0)
          => /\ last.err = NilErr
             /\ last.resp.kind = "ok"
             /\ last.resp.data = lastOk

(* C1, amended: a write of a non-empty, valid URI with                     *)
(* verify_connection=false succeeds whenever its storage Put succeeds, and *)
(* a read whose storage Get succeeds returns exactly the {uri,             *)
(* verify_connection} pair of the most recent successful write.            *)
C1_RoundTrip ==
    /\ (/\ LastWrite
        /\ ValidURI(last.frame.uri)
        /\ ~last.frame.verifyConnection
        /\ last.env.putOk)
          => /\ Succeeded(last.frame)
             /\ ReadOf(Shared).err = NilErr
             /\ ReadOf(Shared).resp.kind = "ok"
             /\ ReadOf(Shared).resp.data =
                   [uri |-> last.frame.uri, verify_connection |-> FALSE]
    /\ (LastRead /\ last.getOk /\ last.okBefore > 0)
          => /\ last.err = NilErr
             /\ last.resp.kind = "ok"
             /\ last.resp.data = lastOk

(* A read returned the pair of a write with verify_connection=false that   *)
(* overwrote an earlier record.                                            *)
C1_Witness ==
    /\ LastRead /\ last.getOk /\ last.okBefore >= 2
    /\ last.resp.kind = "ok"
    /\ last.resp.data = [uri |-> <<"mongodb", "host2", "db">>,
                         verify_connection |-> FALSE]

(* C2: a write with an empty uri returns the error "uri parameter must be  *)
(* supplied" and leaves storage as it was, whatever verify_connection is   *)
(* and whatever was stored; a read after it returns what a read before it  *)
(* would have returned.                                                    *)
C2_EmptyURIRejected ==
    (LastWrite /\ last.frame.uri = EmptyURI)
       => /\ last.resp = ErrorResponse(Text("uri parameter must be supplied"))
          /\ last.err = NilErr
          /\ StorageUntouched
          /\ ReadOf(Shared) = ReadOf(last.pre)

(* An empty uri was written with verify_connection=true over a stored      *)
(* record.                                                                 *)
C2_Witness ==
    /\ LastWrite /\ last.frame.uri = EmptyURI /\ last.frame.verifyConnection
    /\ last.pre.storage.present
    /\ last.resp.kind = "error"

(* C3: a write whose non-empty uri fails parsing returns the error         *)
(* "invalid uri: <parser's message>", dials nothing (even with             *)
(* verify_connection=true) and leaves storage as it was.                   *)
C3_InvalidURIRejected ==
    (LastWrite /\ InvalidURI(last.frame.uri))
       => /\ last.resp = ErrorResponse(Sprintf("invalid uri: %s",
                                  parseMongoURI(last.frame.uri).err))
          /\ last.err = NilErr
          /\ last.frame.dials = 0
          /\ last.frame.opened = 0
          /\ StorageUntouched

(* An unparseable uri was written with verify_connection=true over a       *)
(* stored record, the network being reachable.                             *)
C3_Witness ==
    /\ LastWrite /\ InvalidURI(last.frame.uri) /\ last.frame.verifyConnection
    /\ last.env.dialOk /\ last.env.pingOk /\ last.env.putOk
    /\ last.pre.storage.present
    /\ last.resp.kind = "error"

(* C4: a write with verify_connection=true whose dial fails, or whose dial *)
(* succeeds and whose ping fails, returns the error "Error validating      *)
(* connection info: ..." and leaves storage as it was.                     *)
C4_VerificationFailureNotStored ==
    (/\ LastWrite
     /\ ValidURI(last.frame.uri)
     /\ last.frame.verifyConnection
     /\ (~last.env.dialOk \/ ~last.env.pingOk))
       => /\ last.resp.kind = "error"
          /\ last.resp.data.error[1] = "Error validating connection info: %s"
          /\ last.err = NilErr
          /\ StorageUntouched

(* The dial succeeded and the ping failed, over a stored record. *)
C4_Witness ==
    /\ LastWrite /\ ValidURI(last.frame.uri) /\ last.frame.verifyConnection
    /\ last.env.dialOk /\ ~last.env.pingOk /\ last.env.putOk
    /\ last.frame.dialled
    /\ last.pre.storage.present
    /\ last.frame.uri # DecodeJSON(last.pre.storage).URI

(* C5: every successful write calls ResetSession exactly once and a failed *)
(* write never does, so the number of invalidations equals the number of   *)
(* successful writes.                                                      *)
C5_OneResetPerSuccessfulWrite ==
    /\ resetCount = okWrites
    /\ LastWrite =>
          resetCount - last.pre.resetCount =
             (IF Succeeded(last.frame) THEN 1 ELSE 0)

(* Two writes succeeded and a later one failed. *)
C5_Witness ==
    /\ LastWrite /\ ~Succeeded(last.frame)
    /\ okWrites = 2 /\ resetCount = 2

(* C6: a failed write (empty uri, unparseable uri, failed verification,    *)
(* failed Put) leaves the stored record and the cached session as they     *)
(* were; only a write that returns success changes either.                 *)
C6_FailedWriteChangesNothing ==
    (LastWrite /\ ~Succeeded(last.frame))
       => StorageUntouched /\ SessionUntouched

(* The Put of a validated write failed while a record was stored and a     *)
(* session cached.                                                         *)
C6_Witness ==
    /\ LastWrite /\ ~Succeeded(last.frame)
    /\ last.err = "storage put failed"
    /\ last.frame.pinged
    /\ last.pre.storage.present
    /\ last.pre.session.kind = "session"

(* C7: a stored record has a non-empty uri that parsed, was stored by a    *)
(* write that parsed it, and if its flag is true that write dialled and    *)
(* pinged with success.                                                    *)
C7_StoredRecordWasValidated ==
    storage.present =>
       /\ Len(puts) > 0
       /\ puts[Len(puts)].entry = storage
       /\ ValidURI(DecodeJSON(storage).URI)
       /\ puts[Len(puts)].parsed
       /\ DecodeJSON(storage).VerifyConnection
             => puts[Len(puts)].dialled /\ puts[Len(puts)].pinged

(* A verified record has overwritten an unverified one. *)
C7_Witness ==
    /\ storage.present
    /\ Len(puts) >= 2
    /\ DecodeJSON(storage).VerifyConnection
    /\ ~DecodeJSON(puts[1].entry).VerifyConnection

(* C8: once a write has returned success, a cached session is one dialled  *)
(* from a record at least as new as that write's, whatever the             *)
(* interleaving of writes and session consumers.                           *)
C8_NoStaleSessionAfterWrite ==
    session.kind = "session" =>
       /\ session.version >= acked
       /\ session.version <= Len(puts)
       /\ session.uri = DecodeJSON(puts[session.version].entry).URI

(* A consumer dialled between the Put and the ResetSession of a second     *)
(* write, after a first write had returned success.                        *)
C8_Witness ==
    /\ acked = 1
    /\ session.kind = "session" /\ session.version = 2
    /\ \E w \in Writers : frames[w].pc = "reset"

(* C9: when a write has returned, every verification session it opened is  *)
(* closed, whether the ping succeeded, the ping failed or the Put failed,  *)
(* and a failed dial opened none.                                          *)
C9_VerificationSessionClosed ==
    /\ netOpen = 0
    /\ LastWrite =>
          /\ last.frame.opened = last.frame.closed
          /\ last.frame.deferred = <<>>
          /\ last.frame.opened = (IF last.frame.dialled THEN 1 ELSE 0)
          /\ (last.frame.verifyConnection /\ ValidURI(last.frame.uri)
              /\ ~last.env.dialOk) => last.frame.opened = 0

(* A write dialled, pinged, failed at Put and closed its session. *)
C9_Witness ==
    /\ LastWrite /\ last.frame.pinged /\ ~last.env.putOk
    /\ last.frame.opened = 1 /\ last.frame.closed = 1

(* C10: with no successful write so far, a read whose storage fetch        *)
(* succeeds returns a nil response and a nil error, and the read changes   *)
(* neither storage nor the cached session.                                 *)
C10_ReadUnconfigured ==
    /\ (LastRead /\ last.getOk /\ last.okBefore = 0)
          => last.resp = NilResp /\ last.err = NilErr
    /\ LastRead => StorageUntouched /\ SessionUntouched

(* A read after three failed writes and no successful one. *)
C10_Witness ==
    /\ LastRead /\ last.getOk /\ last.okBefore = 0
    /\ writes = 3
    /\ last.resp = NilResp

====
